---------------------------- MODULE Spec2Model ----------------------------
(***************************************************************************)
(* LexiAI (src/app.py): the vocabulary store (SQLite table `memory`), the  *)
(* three tool functions, the sidebar operations and the tool-dispatch loop *)
(* of handle_chat_input, as a state machine.                               *)
(*                                                                         *)
(* The language-model service is the environment: each invocation either   *)
(* raises or returns a message carrying any list of tool calls.  SQL       *)
(* result orders the query leaves open (ORDER BY RANDOM(), ties of ORDER   *)
(* BY inserted_at) are nondeterministic choices.                           *)
(***************************************************************************)
EXTENDS Integers, Sequences, FiniteSets, TLC

VARIABLES
    store,          \* rows of table memory, in insertion (rowid) order
    now,            \* the wall clock, in whole seconds (datetime('now'))
    faiss_file,     \* TRUE iff the file FAISS_FILE exists
    docstore_file,  \* TRUE iff the file DOCSTORE_FILE exists
    vector_db,      \* TRUE iff load_vector_db() returned an index, FALSE for None
    error_shown,    \* TRUE iff the last script run showed load_vector_db's st.error
    index_was_none, \* TRUE iff some load_vector_db() of the process returned None
    messages,       \* st.session_state.messages
    pc,             \* position of handle_chat_input
    ai_calls,       \* ai_msg.tool_calls of the turn's first response
    tool_results,   \* the local list tool_results of the turn
    next_id,        \* next tool-call id the service hands out
    last,           \* the last store operation: its input, result, store before
    raised,         \* ids of the calls of this turn whose execution raised
    turn,           \* bookkeeping of the last turn: start, end, outcome, count
    shortcuts,      \* number of 'random vocabulary' shortcut clicks so far
    sess            \* per session, the position of an f_memory_update that runs
                    \* step by step on the session's own connection

(* The index artifacts on disk, and what the last load made of them *)
artifacts == <<faiss_file, docstore_file>>
loaded == <<vector_db, error_shown, index_was_none>>

vars == <<store, now, artifacts, loaded, messages, pc, ai_calls, tool_results,
          next_id, last, raised, turn, shortcuts, sess>>

-----------------------------------------------------------------------------
(* Bounds of the model *)

MaxRows == 3        \* rows the store may hold
MaxClock == 1       \* seconds the clock may advance
MaxTurns == 2       \* chat turns per session
MaxCalls == 2       \* tool calls in a first response
MaxToolCalls == 2   \* tool calls the service issues per session
MaxFinalCalls == 1  \* tool calls in an integrating response
MaxRowsQuery == 1   \* largest rows_query a tool call carries
MaxLimit == 2       \* largest explicit limit given to get_recent_vocabulary
MaxShortcuts == 1   \* 'random vocabulary' shortcut clicks per session

(* Program constants *)

DefaultRowsQuery == 5   \* f_memory_query(rows_query=5), handle_random_vocabulary
SidebarLimit == 15      \* get_recent_vocabulary(15)

(* Inputs *)

Sessions == {"s1", "s2"}
Words == {"inu", "Inu", "neko"}
Meanings == {"anjing"}
RowsQueries == -1 .. MaxRowsQuery
Limits == (1 .. MaxLimit) \cup {SidebarLimit}

-----------------------------------------------------------------------------
(* str.lower() on the words of the model *)
lower(w) ==
    CASE w = "Inu" -> "inu"
      [] w = "INU" -> "inu"
      [] w = "Neko" -> "neko"
      [] OTHER -> w

Min(a, b) == IF a <= b THEN a ELSE b

(* Sequences of k distinct row numbers out of 1..n *)
Picks(n, k) ==
    {s \in [1 .. k -> 1 .. n] : \A i, j \in 1 .. k : i # j => s[i] # s[j]}

(* SQLite's LIMIT: a negative limit is no limit *)
LimitCount(n, count) == IF n < 0 THEN count ELSE Min(n, count)

-----------------------------------------------------------------------------
(* Messages *)

SystemMessage == [type |-> "system", content |-> "SYSTEM_PROMPT",
                  tool_calls |-> <<>>, tool_call_id |-> 0]
HumanMessage(c) == [type |-> "human", content |-> c,
                    tool_calls |-> <<>>, tool_call_id |-> 0]
AIMessage(c, ids) == [type |-> "ai", content |-> c,
                      tool_calls |-> ids, tool_call_id |-> 0]
ToolMessage(c, id) == [type |-> "tool", content |-> c,
                       tool_calls |-> <<>>, tool_call_id |-> id]

InitialMessages == <<SystemMessage, AIMessage("Halo! Saya LexiAI", <<>>)>>

NoOp == [op |-> "none", word |-> "", n |-> 0, result |-> "",
         rows |-> <<>>, before |-> <<>>]

IdleSession == [pc |-> "idle", word |-> "", meaning |-> "", exists |-> FALSE]

NoTurn == [start |-> 0, end |-> 0, outcome |-> "none", count |-> 0]

-----------------------------------------------------------------------------
(* The vocabulary store and the tool functions *)

Row(word, meaning, ts) == [kata |-> word, arti |-> meaning, inserted_at |-> ts]

(* SELECT 1 FROM memory WHERE kata = ?  (BINARY collation: exact match) *)
KataExists(s, key) == \E i \in 1 .. Len(s) : s[i].kata = key

(* What a tool function hands back: the store it leaves, the string it     *)
(* returns (or the fact that it raised), the rows it selected.             *)
Returned(s, c, rs) == [store |-> s, content |-> c, rows |-> rs, raises |-> FALSE]
Raised(s) == [store |-> s, content |-> "exception", rows |-> <<>>, raises |-> TRUE]

f_memory_update(s, word, meaning, ts) ==
    IF KataExists(s, lower(word))
    THEN Returned(s, "sudah ada di database", <<>>)
    ELSE Returned(Append(s, Row(word, meaning, ts)), "Berhasil menambahkan", <<>>)

(* SELECT kata, arti FROM memory ORDER BY RANDOM() LIMIT ? : any selection *)
(* of LimitCount rows, in any order                                        *)
f_memory_query(s, rows_query) ==
    {IF rs = <<>>
       THEN Returned(s, "Database kosong.", rs)
       ELSE Returned(s, "Kosakata acak yang tersimpan", rs)
     : rs \in Picks(Len(s), LimitCount(rows_query, Len(s)))}

(* vector_db.similarity_search raises when vector_db is None; with an      *)
(* index, the search and llm.invoke are external calls that answer or raise*)
f_lookup_dictionary(s, db) ==
    IF db THEN {Returned(s, "response.content", <<>>), Raised(s)}
          ELSE {Raised(s)}

(* SELECT ... ORDER BY inserted_at DESC LIMIT ? : rows of equal            *)
(* inserted_at come in an order the query leaves open                      *)
get_recent_vocabulary(s, limit) ==
    {SubSeq(p, 1, LimitCount(limit, Len(s))) :
        p \in {q \in Picks(Len(s), Len(s)) :
                 \A i, j \in 1 .. Len(s) :
                    i < j => s[q[i]].inserted_at >= s[q[j]].inserted_at}}

(* A delete that compares as the insert's check is documented to *)
delete_ignoring_case(s, word) ==
    SelectSeq(s, LAMBDA r : lower(r.kata) # lower(word))

(* DELETE FROM memory WHERE kata = ? *)
delete_vocabulary(s, word) == SelectSeq(s, LAMBDA r : r.kata # word)

-----------------------------------------------------------------------------
(* Tool calls of the language-model service *)

RegisteredTools == {"f_memory_update", "f_memory_query", "f_lookup_dictionary"}

Call(name, word, meaning, rows_query) ==
    [name |-> name, word |-> word, meaning |-> meaning,
     rows_query |-> rows_query, id |-> 0]

CallShapes ==
    {Call("f_memory_update", w, m, DefaultRowsQuery) : w \in Words, m \in Meanings}
    \cup {Call("f_memory_query", "", "", n) : n \in RowsQueries}
    \cup {Call("f_lookup_dictionary", "", "", DefaultRowsQuery),
          Call("f_translate", "", "", DefaultRowsQuery)}

(* The service tags the calls of a response with fresh ids *)
WithIds(shapes, first) ==
    [i \in 1 .. Len(shapes) |-> [shapes[i] EXCEPT !.id = first + i - 1]]

Ids(calls) == [i \in 1 .. Len(calls) |-> calls[i].id]

Updates(calls) ==
    Cardinality({i \in 1 .. Len(calls) : calls[i].name = "f_memory_update"})

(* The else branch missing: result is unbound and the call raises *)
UnknownToolRaises(s) == Raised(s)

(* The else branch of the if/elif chain on tool_name *)
UnknownTool(s) == Returned(s, "Tool tidak dikenal", <<>>)

InvokeTool(call, s, db, ts) ==
    IF call.name = "f_memory_update"
      THEN {f_memory_update(s, call.word, call.meaning, ts)}
    ELSE IF call.name = "f_memory_query"
      THEN f_memory_query(s, call.rows_query)
    ELSE IF call.name = "f_lookup_dictionary"
      THEN f_lookup_dictionary(s, db)
    ELSE {UnknownTool(s)}

(* try: tool_results.append(ToolMessage(str(result), id))                  *)
(* except Exception: tool_results.append(ToolMessage(error_msg, id))       *)
ResultMessage(o, id) ==
    IF o.raises THEN ToolMessage("Error saat menjalankan tool", id)
                ELSE ToolMessage(o.content, id)

(* No try/except around the call: an exception ends the turn *)
AfterCallUncaught(o) == IF o.raises THEN "idle" ELSE "executing"

(* The except clause swallows the exception: the for loop goes on *)
AfterCall(o) == "executing"

(* The results put in front one by one: the history gets them reversed *)
ExtendReversed(msgs, results) ==
    msgs \o [i \in 1 .. Len(results) |-> results[Len(results) + 1 - i]]

(* st.session_state.messages.extend(tool_results) *)
ExtendMessages(msgs, results) == msgs \o results

(* The history initialised without the "not in" test *)
ResetMessages(msgs) == InitialMessages

(* if "messages" not in st.session_state: ... *)
SessionMessages(msgs) == IF msgs = <<>> THEN InitialMessages ELSE msgs

Operation(op, word, n, o, before) ==
    [op |-> op, word |-> word, n |-> n, result |-> o.content,
     rows |-> o.rows, before |-> before]

-----------------------------------------------------------------------------
(* The top of the script, which every script run executes before it gets   *)
(* to a handler: vector_db = load_vector_db().  The index is read from the *)
(* two files when both exist; otherwise st.error and None.                 *)
load_if_any(faiss, doc) == faiss \/ doc

load_vector_db(faiss, doc) == faiss /\ doc

ScriptTop ==
    /\ vector_db' = load_vector_db(faiss_file, docstore_file)
    /\ error_shown' = ~vector_db'
    /\ index_was_none' = (index_was_none \/ ~vector_db')

-----------------------------------------------------------------------------
Init ==
    /\ store = <<>>
    /\ now = 0
    /\ faiss_file \in BOOLEAN
    /\ docstore_file \in BOOLEAN
    /\ vector_db = load_vector_db(faiss_file, docstore_file)
    /\ error_shown = ~vector_db
    /\ index_was_none = ~vector_db
    /\ messages = InitialMessages
    /\ pc = "idle"
    /\ ai_calls = <<>>
    /\ tool_results = <<>>
    /\ next_id = 1
    /\ last = NoOp
    /\ raised = {}
    /\ turn = NoTurn
    /\ shortcuts = 0
    /\ sess = [s \in Sessions |-> IdleSession]

-----------------------------------------------------------------------------
(* The clock *)
Tick ==
    /\ now < MaxClock
    /\ now' = now + 1
    /\ UNCHANGED <<store, artifacts, loaded, messages, pc, ai_calls, tool_results,
                   next_id, last, raised, turn, shortcuts, sess>>

-----------------------------------------------------------------------------
(* The sidebar *)

(* The add form: both fields filled in *)
AddVocabularyManual ==
    /\ pc = "idle"
    /\ ScriptTop
    /\ Len(store) < MaxRows
    /\ \E w \in Words, m \in Meanings :
         LET o == f_memory_update(store, w, m, now) IN
           /\ store' = o.store
           /\ last' = Operation("f_memory_update", w, 0, o, store)
    /\ UNCHANGED <<now, artifacts, messages, pc, ai_calls, tool_results,
                   next_id, raised, turn, shortcuts, sess>>

DeleteVocabulary ==
    /\ pc = "idle"
    /\ ScriptTop
    /\ \E w \in Words :
         /\ store' = delete_vocabulary(store, w)
         /\ last' = Operation("delete_vocabulary", w, 0,
                              Returned(store', "berhasil dihapus", <<>>), store)
    /\ UNCHANGED <<now, artifacts, messages, pc, ai_calls, tool_results,
                   next_id, raised, turn, shortcuts, sess>>

GetRecentVocabulary ==
    /\ pc = "idle"
    /\ ScriptTop
    /\ \E limit \in Limits :
         \E rs \in get_recent_vocabulary(store, limit) :
            last' = Operation("get_recent_vocabulary", "", limit,
                              Returned(store, "", rs), store)
    /\ UNCHANGED <<store, now, artifacts, messages, pc, ai_calls, tool_results,
                   next_id, raised, turn, shortcuts, sess>>

HandleRandomVocabulary ==
    /\ pc = "idle"
    /\ ScriptTop
    /\ shortcuts < MaxShortcuts
    /\ shortcuts' = shortcuts + 1
    /\ \E o \in f_memory_query(store, DefaultRowsQuery) :
         /\ last' = Operation("f_memory_query", "", DefaultRowsQuery, o, store)
         /\ messages' = SessionMessages(messages)
                          \o <<HumanMessage("Tampilkan 5 kosakata acak"),
                               AIMessage(o.content, <<>>)>>
    /\ UNCHANGED <<store, now, artifacts, pc, ai_calls, tool_results,
                   next_id, raised, turn, sess>>

-----------------------------------------------------------------------------
(* handle_chat_input *)

(* The prompt is appended; the first model invocation is in flight *)
Submit ==
    /\ pc = "idle"
    /\ ScriptTop
    /\ turn.count < MaxTurns
    /\ messages' = Append(messages, HumanMessage("prompt"))
    /\ pc' = "deciding"
    /\ ai_calls' = <<>>
    /\ tool_results' = <<>>
    /\ raised' = {}
    /\ turn' = [start |-> Len(messages), end |-> 0, outcome |-> "running",
                count |-> turn.count + 1]
    /\ UNCHANGED <<store, now, artifacts, next_id, last, shortcuts, sess>>

(* llm_with_tools.invoke returns ai_msg; it is appended *)
ModelDecides ==
    /\ pc = "deciding"
    /\ \E k \in 0 .. Min(MaxCalls, MaxToolCalls + 1 - next_id) :
         \E shapes \in [1 .. k -> CallShapes] :
            /\ Len(store) + Updates(shapes) <= MaxRows
            /\ ai_calls' = WithIds(shapes, next_id)
            /\ next_id' = next_id + k
            /\ messages' = Append(messages, AIMessage("ai_msg.content", Ids(ai_calls')))
            /\ IF k = 0
                 THEN /\ pc' = "idle"
                      /\ turn' = [turn EXCEPT !.end = Len(messages'),
                                              !.outcome = "completed"]
                 ELSE /\ pc' = "executing"
                      /\ turn' = turn
    /\ UNCHANGED <<store, now, artifacts, loaded, tool_results, last, raised, shortcuts, sess>>

(* llm_with_tools.invoke raises: nothing catches it, the turn is over *)
ModelDecidesFails ==
    /\ pc = "deciding"
    /\ pc' = "idle"
    /\ turn' = [turn EXCEPT !.end = Len(messages), !.outcome = "aborted"]
    /\ UNCHANGED <<store, now, artifacts, loaded, messages, ai_calls, tool_results,
                   next_id, last, raised, shortcuts, sess>>

(* One pass of the for loop over ai_msg.tool_calls *)
ExecTool ==
    /\ pc = "executing"
    /\ Len(tool_results) < Len(ai_calls)
    /\ LET call == ai_calls[Len(tool_results) + 1] IN
         \E o \in InvokeTool(call, store, vector_db, now) :
            /\ store' = o.store
            /\ last' = Operation(call.name, call.word, call.rows_query, o, store)
            /\ tool_results' = Append(tool_results, ResultMessage(o, call.id))
            /\ raised' = IF o.raises THEN raised \cup {call.id} ELSE raised
            /\ pc' = AfterCall(o)
            /\ turn' = IF pc' = "idle"
                         THEN [turn EXCEPT !.end = Len(messages),
                                           !.outcome = "aborted"]
                         ELSE turn
    /\ UNCHANGED <<now, artifacts, loaded, messages, ai_calls, next_id, shortcuts, sess>>

(* After the loop: the results go to history, the second invocation starts *)
ExtendResults ==
    /\ pc = "executing"
    /\ Len(tool_results) = Len(ai_calls)
    /\ messages' = ExtendMessages(messages, tool_results)
    /\ pc' = "integrating"
    /\ UNCHANGED <<store, now, artifacts, loaded, ai_calls, tool_results, next_id,
                   last, raised, turn, shortcuts, sess>>

(* The second llm_with_tools.invoke returns final_response; it is appended. *)
(* The tools are still bound: the response may carry tool calls.            *)
ModelIntegrates ==
    /\ pc = "integrating"
    /\ \E k \in 0 .. Min(MaxFinalCalls, MaxToolCalls + 1 - next_id) :
         /\ next_id' = next_id + k
         /\ messages' = Append(messages,
               AIMessage("final_response.content",
                         [i \in 1 .. k |-> next_id + i - 1]))
    /\ pc' = "idle"
    /\ turn' = [turn EXCEPT !.end = Len(messages'), !.outcome = "completed"]
    /\ UNCHANGED <<store, now, artifacts, loaded, ai_calls, tool_results, last,
                   raised, shortcuts, sess>>

ModelIntegratesFails ==
    /\ pc = "integrating"
    /\ pc' = "idle"
    /\ turn' = [turn EXCEPT !.end = Len(messages), !.outcome = "aborted"]
    /\ UNCHANGED <<store, now, artifacts, loaded, messages, ai_calls, tool_results,
                   next_id, last, raised, shortcuts, sess>>

-----------------------------------------------------------------------------
(* The environment: an index artifact is written or removed on disk.  The  *)
(* files are read at the top of a script run only, so a change during a    *)
(* turn shows at the next run, as does one made between runs.              *)
ArtifactsChange ==
    /\ pc = "idle"
    /\ \E f, d \in BOOLEAN :
         /\ <<f, d>> # <<faiss_file, docstore_file>>
         /\ faiss_file' = f
         /\ docstore_file' = d
    /\ UNCHANGED <<store, now, loaded, messages, pc, ai_calls, tool_results,
                   next_id, last, raised, turn, shortcuts, sess>>

-----------------------------------------------------------------------------
(* f_memory_update run by several sessions against the shared table: each *)
(* call opens its own connection, and its SELECT and its INSERT + commit   *)
(* are separate statements with nothing held in between.                   *)

InFlight == Cardinality({s \in Sessions : sess[s].pc # "idle"})

(* conn = sqlite3.connect(DB_PATH); c = conn.cursor() *)
Connect(s) ==
    /\ sess[s].pc = "idle"
    /\ Len(store) + InFlight < MaxRows
    /\ \E w \in Words, m \in Meanings :
         sess' = [sess EXCEPT ![s] = [pc |-> "select", word |-> w,
                                      meaning |-> m, exists |-> FALSE]]
    /\ UNCHANGED <<store, now, artifacts, loaded, messages, pc, ai_calls,
                   tool_results, next_id, last, raised, turn, shortcuts>>

(* c.execute("SELECT 1 ... WHERE kata = ?", (word.lower(),)); c.fetchone() *)
SelectKata(s) ==
    /\ sess[s].pc = "select"
    /\ sess' = [sess EXCEPT ![s].pc = "fetched",
                            ![s].exists = KataExists(store, lower(sess[s].word))]
    /\ UNCHANGED <<store, now, artifacts, loaded, messages, pc, ai_calls,
                   tool_results, next_id, last, raised, turn, shortcuts>>

(* if exists: close and return; else: INSERT, commit, close, return *)
InsertOrReturn(s) ==
    /\ sess[s].pc = "fetched"
    /\ store' = IF sess[s].exists
                  THEN store
                  ELSE Append(store, Row(sess[s].word, sess[s].meaning, now))
    /\ sess' = [sess EXCEPT ![s] = IdleSession]
    /\ UNCHANGED <<now, artifacts, loaded, messages, pc, ai_calls,
                   tool_results, next_id, last, raised, turn, shortcuts>>

NextRace ==
    \E s \in Sessions :
       \/ Connect(s)
       \/ SelectKata(s)
       \/ InsertOrReturn(s)

-----------------------------------------------------------------------------
(* The sidebar's store operations and the clock *)
NextStore ==
    \/ Tick
    \/ AddVocabularyManual
    \/ DeleteVocabulary
    \/ GetRecentVocabulary

(* The chat: turns of handle_chat_input and the shortcut that writes to    *)
(* the history.  The sidebar's store operations run between turns only and *)
(* never touch the history.                                                *)
NextChat ==
    \/ HandleRandomVocabulary
    \/ Submit
    \/ ModelDecides
    \/ ModelDecidesFails
    \/ ExecTool
    \/ ExtendResults
    \/ ModelIntegrates
    \/ ModelIntegratesFails

(* Chat turns with the index artifacts changing on disk between them *)
NextIndex ==
    \/ ArtifactsChange
    \/ Submit
    \/ ModelDecides
    \/ ModelDecidesFails
    \/ ExecTool
    \/ ExtendResults
    \/ ModelIntegrates
    \/ ModelIntegratesFails

Next == NextStore \/ NextChat \/ ArtifactsChange \/ NextRace

SpecStore == Init /\ [][NextStore]_vars
SpecChat == Init /\ [][NextChat]_vars
SpecIndex == Init /\ [][NextIndex]_vars
SpecRace == Init /\ [][NextRace]_vars
Spec == Init /\ [][Next]_vars
-----------------------------------------------------------------------------
(* Properties of the vocabulary store (SpecStore) *)

SameWord(a, b) == lower(a) = lower(b)

(* C1: the store never holds two rows whose words are equal when compared  *)
(* case-insensitively, and an addWord of a word that exists in any case    *)
(* variant returns the 'already exists' message and leaves the row count   *)
(* unchanged.                                                              *)
C1_NoDuplicateWords ==
    /\ \A i, j \in 1 .. Len(store) :
          i # j => ~SameWord(store[i].kata, store[j].kata)
    /\ (/\ last.op = "f_memory_update"
        /\ \E i \in 1 .. Len(last.before) : SameWord(last.before[i].kata, last.word))
       => /\ last.result = "sudah ada di database"
          /\ Len(store) = Len(last.before)

(* C8: delete(word) removes exactly the rows whose stored word equals the  *)
(* given word with the same case; every other row, rows that differ only   *)
(* in case included, stays, in its place.                                  *)
C8_DeleteExactCase ==
    last.op = "delete_vocabulary" =>
       LET before == last.before
           keep == {i \in 1 .. Len(before) : before[i].kata # last.word}
           nth(k) == CHOOSE i \in keep : Cardinality({j \in keep : j <= i}) = k
       IN /\ Len(store) = Cardinality(keep)
          /\ \A k \in 1 .. Len(store) : store[k] = before[nth(k)]

(* C8's case: a delete of a word from a store that held that word, a case  *)
(* variant of it and another word                                          *)
C8_Witness ==
    /\ last.op = "delete_vocabulary"
    /\ \E i, j, k \in 1 .. Len(last.before) :
          /\ last.before[i].kata = last.word
          /\ last.before[j].kata # last.word
          /\ SameWord(last.before[j].kata, last.word)
          /\ ~SameWord(last.before[k].kata, last.word)
    /\ Len(store) = 2

(* C9: recent(limit) returns at most limit entries, ordered strictly by    *)
(* insertion descending, the most recently inserted first.                 *)
C9_RecentByInsertion ==
    last.op = "get_recent_vocabulary" =>
       /\ Len(last.rows) <= last.n
       /\ \A i, j \in 1 .. Len(last.rows) : i < j => last.rows[i] > last.rows[j]
       /\ last.rows # <<>> => last.rows[1] = Len(last.before)

-----------------------------------------------------------------------------
(* Properties of the dispatch loop and the history (SpecChat) *)

(* The messages the last turn appended *)
TurnMessages == SubSeq(messages, turn.start + 1, turn.end)

TurnCompleted == pc = "idle" /\ turn.outcome = "completed"
TurnAborted == pc = "idle" /\ turn.outcome = "aborted"

ToolResultsFor(id) ==
    {j \in 1 .. Len(messages) :
        messages[j].type = "tool" /\ messages[j].tool_call_id = id}

(* Every tool call an assistant message of the history carries has n results *)
CallsAnswered(P(_)) ==
    \A j \in 1 .. Len(messages) :
       messages[j].type = "ai" =>
          \A c \in 1 .. Len(messages[j].tool_calls) :
             P(Cardinality(ToolResultsFor(messages[j].tool_calls[c])))

(* The for loop ran over the whole list and its results are in the history, *)
(* right after the first response                                           *)
LoopRanToEnd ==
    /\ Len(tool_results) = Len(ai_calls)
    /\ Len(messages) >= turn.start + 2 + Len(ai_calls)
    /\ SubSeq(messages, turn.start + 3, turn.start + 2 + Len(ai_calls)) = tool_results

(* C2: a completed turn whose first response carries N tool calls appends  *)
(* the user message, that response, exactly N tool-result messages in call *)
(* order, each with the id of its call, and one final assistant message as *)
(* the last message; with N = 0 it appends the user message and exactly    *)
(* one assistant message, and no tool-result message.                      *)
C2_TurnAppends ==
    TurnCompleted =>
       LET seg == TurnMessages
           N == Len(seg[2].tool_calls)
       IN /\ Len(seg) >= 2
          /\ seg[1].type = "human"
          /\ seg[2].type = "ai"
          /\ IF N = 0
               THEN Len(seg) = 2
               ELSE /\ Len(seg) = N + 3
                    /\ \A i \in 1 .. N :
                          /\ seg[2 + i].type = "tool"
                          /\ seg[2 + i].tool_call_id = seg[2].tool_calls[i]
                    /\ seg[N + 3].type = "ai"

(* C2's case: a completed turn with two tool calls, the first of which raised *)
C2_Witness ==
    /\ TurnCompleted
    /\ Len(ai_calls) = 2
    /\ ai_calls[1].id \in raised
    /\ Len(TurnMessages) = 5

(* C3: at the end of every completed turn each tool call carried by an     *)
(* assistant message of the history has exactly one tool-result message.   *)
C3_EveryCallConsumedOnce ==
    TurnCompleted => CallsAnswered(LAMBDA n : n = 1)

(* C4: when a call of the list raises, every call of the list is still     *)
(* executed in order, the failing call gets the error string as its own    *)
(* result, the other calls' store effects are applied, and the turn goes   *)
(* on to the second model invocation.                                      *)
C4_RaisingCallIsContained ==
    raised # {} =>
       /\ \A i \in 1 .. Len(tool_results) :
             /\ tool_results[i].type = "tool"
             /\ tool_results[i].tool_call_id = ai_calls[i].id
             /\ ai_calls[i].id \in raised
                   <=> tool_results[i].content = "Error saat menjalankan tool"
       /\ pc \in {"executing", "integrating"} =>
             \A i \in 1 .. Len(tool_results) :
                ai_calls[i].name = "f_memory_update" =>
                   \E r \in 1 .. Len(store) :
                      store[r].kata \in {ai_calls[i].word, lower(ai_calls[i].word)}
       /\ pc \in {"integrating", "idle"} => LoopRanToEnd

(* C4's case: the first call of two raised, the second one inserted its    *)
(* word, and the second model invocation is in flight                      *)
C4_Witness ==
    /\ pc = "integrating"
    /\ Len(ai_calls) = 2
    /\ ai_calls[1].id \in raised
    /\ ai_calls[2].name = "f_memory_update"
    /\ tool_results[2].content = "Berhasil menambahkan"
    /\ Len(store) = 1

(* C5: when a model invocation fails, the turn ends with the history as it *)
(* was at the failure: the user message is there, no final answer is, and  *)
(* every tool call carried by an assistant message of the history has its  *)
(* tool-result message.                                                    *)
C5_AbortLeavesConsistentHistory ==
    TurnAborted =>
       LET seg == TurnMessages IN
          /\ seg # <<>>
          /\ seg[1].type = "human"
          /\ seg[Len(seg)].type \in {"human", "tool"}
          /\ CallsAnswered(LAMBDA n : n >= 1)

(* C6: the history begins with a system message and holds no other, and no *)
(* message of the history is ever removed or changed.                      *)
C6_HistoryAppendOnly ==
    /\ [](/\ messages # <<>>
          /\ messages[1].type = "system"
          /\ \A i \in 2 .. Len(messages) : messages[i].type # "system")
    /\ [][/\ Len(messages') >= Len(messages)
          /\ SubSeq(messages', 1, Len(messages)) = messages]_vars

(* C6's case: the shortcut was used and a second turn was aborted *)
C6_Witness ==
    /\ TurnAborted
    /\ turn.count = 2
    /\ shortcuts = 1
    /\ messages[Len(messages)].content \in
          {"Database kosong.", "Kosakata acak yang tersimpan"}

(* C7: memory_query returns the empty-store message when the store has no  *)
(* rows, and on a non-empty store a list of at most rowsQuery rows of the  *)
(* store, for every rowsQuery, 0 and negative values included.             *)
C7_QueryResult ==
    last.op = "f_memory_query" =>
       IF last.before = <<>>
         THEN last.result = "Database kosong."
         ELSE /\ last.result = "Kosakata acak yang tersimpan"
              /\ Len(last.rows) <= last.n
              /\ \A i \in 1 .. Len(last.rows) : last.rows[i] \in 1 .. Len(last.before)

(* C10: a call of an unregistered tool gets the 'unknown tool' string as   *)
(* its result, leaves the store as it was, and stops neither the other     *)
(* calls nor the second model invocation.                                  *)
C10_UnknownToolIsReported ==
    /\ \A i \in 1 .. Len(tool_results) :
          ai_calls[i].name \notin RegisteredTools =>
             tool_results[i] = ToolMessage("Tool tidak dikenal", ai_calls[i].id)
    /\ last.op = "f_translate" => store = last.before
    /\ (/\ \E i \in 1 .. Len(ai_calls) : ai_calls[i].name \notin RegisteredTools
        /\ pc \in {"integrating", "idle"})
       => LoopRanToEnd

(* C10's case: an unknown tool first, then an insert, and the second model *)
(* invocation in flight                                                    *)
C10_Witness ==
    /\ pc = "integrating"
    /\ Len(ai_calls) = 2
    /\ ai_calls[1].name = "f_translate"
    /\ ai_calls[2].name = "f_memory_update"
    /\ tool_results[1].content = "Tool tidak dikenal"
    /\ Len(store) = 1

-----------------------------------------------------------------------------
(* Properties of the index load (SpecIndex) *)

LookupCalled == \E i \in 1 .. Len(ai_calls) : ai_calls[i].name = "f_lookup_dictionary"

(* The results the turn has so far, with the index None: a lookup's is the *)
(* per-call error, an update's and a query's are their own strings         *)
ResultsWithoutIndex ==
    \A i \in 1 .. Len(tool_results) :
       /\ tool_results[i].tool_call_id = ai_calls[i].id
       /\ ai_calls[i].name = "f_lookup_dictionary" =>
             /\ tool_results[i].content = "Error saat menjalankan tool"
             /\ ai_calls[i].id \in raised
       /\ ai_calls[i].name = "f_memory_update" =>
             tool_results[i].content \in
                {"Berhasil menambahkan", "sudah ada di database"}
       /\ ai_calls[i].name = "f_memory_query" =>
             tool_results[i].content \in
                {"Database kosong.", "Kosakata acak yang tersimpan"}

-----------------------------------------------------------------------------
(* Properties of concurrent sessions (SpecRace) *)

RowsOf(w) == {i \in 1 .. Len(store) : store[i].kata = w}

(* C12: when addWord operations for the same all-lowercase word run from   *)
(* two sessions with their steps interleaved, the store ends with at most  *)
(* one row for that word.                                                  *)
C12_OneRowPerLowercaseWord ==
    (\A s \in Sessions : sess[s].pc = "idle") =>
       \A w \in Words : w = lower(w) => Cardinality(RowsOf(w)) <= 1

=============================================================================
